---- MODULE Spec2Model ----
(***************************************************************************)
(* A model of the FTP client of davidwalter0/go-ftp (src/client.go, the    *)
(* Connection type declared at line 101 and its methods).                  *)
(*                                                                         *)
(* One caller issues Cmd, Login, Logout, GetBuffer, DownloadFile and       *)
(* UploadFile one after another on one Connection.  The control channel is *)
(* a byte stream: the server answers each command it receives with a reply *)
(* text, the network delivers it line by line, any number of lines at a   *)
(* time, and Cmd reads through a bufio.Reader it creates on every call.    *)
(* Every byte of a reply carries the number of the command it answers, so  *)
(* that properties can tell whose reply a Cmd call has consumed.           *)
(*                                                                         *)
(* Specifications:                                                         *)
(*   Spec          the operations on a Connection that Dial has returned   *)
(*   SpecDial      Dial itself, from a host string to a Connection         *)
(*   SpecSession   Dial of one host, then the operations of Spec           *)
(*   SpecRoundTrip Spec, the caller dialing a new Connection between calls *)
(*   SpecCmdFair   Cmd alone, the control channel closed under its read,   *)
(*                 with the fairness of a read on a closed channel         *)
(*   SpecCode      checkResponseCode applied to its arguments              *)
(*   SpecPort      extractDataPort applied to its argument                 *)
(***************************************************************************)
EXTENDS Integers, Sequences, FiniteSets, TLC

\* ------------------------------------------------------------------ bounds
MaxOps == 2        \* calls the caller issues on the Connection
MaxFaults == 1     \* I/O failures and irregular replies the environment injects in one run
MaxHost == 3       \* characters of the host string given to Dial
MaxFields == 7     \* numbers in a text given to extractDataPort
MaxDials == 2      \* Connections the caller dials to the server, one after another

\* bufio.NewReader(c.control) allocates the default 4096-byte buffer.
BufSize == 4096
\* bufLen := 1024, the transfer buffer of the copy loops.
bufLen == 1024
\* welcomeMsg := make([]byte, 1024)
welcomeLen == 1024
\* expectCode < 1000: the codes checkResponseCode tells apart are below 1000.
CodeLimit == 1000

\* --------------------------------------------------------------- texts
CR == "\r"
LF == "\n"
CRLF == <<CR, LF>>
ASCII == "A"
BINARY == "I"

Digits == <<"0", "1", "2", "3", "4", "5", "6", "7", "8", "9">>
IsDigit(c) == \E i \in 1..10 : Digits[i] = c
DigitVal(c) == (CHOOSE i \in 1..10 : Digits[i] = c) - 1

\* Reply texts the server may send, as sequences of characters.
R200 == <<"2", "0", "0", " ">> \o CRLF
R500 == <<"5", "0", "0", " ">> \o CRLF
R227 == <<"2", "2", "7", " ", "1", ",", "2", ",", "3", ",", "4", ",", "5", ",", "6">> \o CRLF
\* a multi-line reply whose continuation line holds "123 " after its start
RMulti == <<"2", "2", "0", "-", "1", "2", "3", " ">> \o CRLF \o <<"2", "2", "0", " ">> \o CRLF
\* a multi-line reply whose first line carries another number than its last
RDiff == <<"1", "2", "0", "-">> \o CRLF \o <<"2", "2", "0", " ">> \o CRLF
\* a multi-line reply whose first line does not start with a number
RText == <<"a">> \o CRLF \o <<"2", "2", "0", " ">> \o CRLF
\* a reply whose number carries a sign
RSigned == <<"-", "2", "0", " ">> \o CRLF
\* a zero byte of a buffer that was not written
NUL == "NUL"
R150 == <<"1", "5", "0", " ">> \o CRLF
R226 == <<"2", "2", "6", " ">> \o CRLF

\* What a server answers as a rule, and what it may answer besides.
PlainReply(command) == IF command = "PASV" THEN R227 ELSE R200
OddReplies == {R500, RMulti, RDiff, RText}

Users == {"", "u"}
Passwords == {"", "p"}
Modes == {BINARY}
Timeouts == {5}
Transfers == {"GetBuffer", "DownloadFile", "UploadFile"}

\* The contents a file may have.
Contents == {<<>>, <<"a">>, <<"b", "a">>}


\* ------------------------------------------------------------- helpers
Min(a, b) == IF a < b THEN a ELSE b

\* A byte of the control channel is <<character, number of the command it answers>>.
Tag(text, id) == [i \in 1..Len(text) |-> <<text[i], id>>]
Text(s) == [i \in 1..Len(s) |-> s[i][1]]
Ids(s) == {s[i][2] : i \in 1..Len(s)}
Drop(s, n) == SubSeq(s, n + 1, Len(s))

\* Index of the first '\n' of a buffer, 0 when it holds none (bufio.Reader.ReadString).
IndexOfLF(buf) ==
  IF \E i \in 1..Len(buf) : buf[i][1] = LF
  THEN CHOOSE i \in 1..Len(buf) : buf[i][1] = LF /\ \A j \in 1..(i - 1) : buf[j][1] # LF
  ELSE 0

\* regexp.MustCompile("[0-9][0-9][0-9] ").MatchString(ln): the pattern is not
\* anchored, so it matches at any position of the line.
MatchString(ln) ==
  \E i \in 1..(Len(ln) - 3) :
    IsDigit(ln[i]) /\ IsDigit(ln[i + 1]) /\ IsDigit(ln[i + 2]) /\ ln[i + 3] = " "

\* The value of a sequence of decimal digits, -1 when a character is no digit.
RECURSIVE DigitsVal(_)
DigitsVal(s) ==
  IF Len(s) = 0 THEN 0
  ELSE LET head == DigitsVal(SubSeq(s, 1, Len(s) - 1))
           last == s[Len(s)]
       IN IF head < 0 \/ ~IsDigit(last) THEN -1 ELSE head * 10 + DigitVal(last)

\* strconv.Atoi on a short string: an optional sign, then one or more digits.
Atoi(s) ==
  LET signed == Len(s) > 0 /\ s[1] \in {"+", "-"}
      body == IF signed THEN Drop(s, 1) ELSE s
      n == DigitsVal(body)
  IN IF Len(body) = 0 \/ n < 0 THEN [val |-> 0, err |-> TRUE]
     ELSE [val |-> IF signed /\ s[1] = "-" THEN -n ELSE n, err |-> FALSE]

\* uint(t).  A negative t converts to 2^w + t (w = 32 or 64), which is beyond
\* the integers at hand here: a uint is kept as the integer t itself,
\* a negative one standing for 2^w + t.
Uint(t) == t
\* A lower bound (2^32 / 100) of the quotient of such a wrapped value by 1, 10 or 100.
UintWrapQuot == 42949672
Quot(code, d) == IF code >= 0 THEN code \div d ELSE UintWrapQuot

\* checkResponseCode as it would be with code/100 in its second line too.
checkResponseCodeHundreds(expectCode, code) ==
  \/ 1 <= expectCode /\ expectCode < 10 /\ Quot(code, 100) # expectCode
  \/ 10 <= expectCode /\ expectCode < 100 /\ Quot(code, 100) # expectCode
  \/ 100 <= expectCode /\ expectCode < 1000 /\ code # expectCode

\* checkResponseCode(expectCode, code) # nil
checkResponseCode(expectCode, code) ==
  \/ 1 <= expectCode /\ expectCode < 10 /\ Quot(code, 100) # expectCode
  \/ 10 <= expectCode /\ expectCode < 100 /\ Quot(code, 10) # expectCode
  \/ 100 <= expectCode /\ expectCode < 1000 /\ code # expectCode

\* End of the run of digits of s that starts at i (i itself when s[i] is no digit).
RECURSIVE DigitRunEnd(_, _)
DigitRunEnd(s, i) == IF i <= Len(s) /\ IsDigit(s[i]) THEN DigitRunEnd(s, i + 1) ELSE i

\* The position after k comma-separated numbers starting at i, 0 when s does
\* not hold them there ("[0-9]+,[0-9]+,..." with greedy runs).
RECURSIVE GroupsEnd(_, _, _)
GroupsEnd(s, i, k) ==
  LET e == DigitRunEnd(s, i)
  IN IF e = i THEN 0
     ELSE IF k = 1 THEN e
     ELSE IF e <= Len(s) /\ s[e] = "," THEN GroupsEnd(s, e + 1, k - 1)
     ELSE 0

\* The start of the leftmost match of
\* "[0-9]+,[0-9]+,[0-9]+,[0-9]+,([0-9]+,[0-9]+)" in line, 0 when there is none.
MatchStart(line) ==
  LET starts == {i \in 1..Len(line) : GroupsEnd(line, i, 6) # 0}
  IN IF starts = {} THEN 0 ELSE CHOOSE i \in starts : \A j \in starts : i <= j

\* The two numbers that start at p, "first,second", as strconv.Atoi reads
\* them (its error is dropped), combined as uint(first*256 + second).
PortOfPair(line, p) ==
  LET e1 == DigitRunEnd(line, p)
      e2 == DigitRunEnd(line, e1 + 1)
      firstOctet == Atoi(SubSeq(line, p, e1 - 1)).val
      secondOctet == Atoi(SubSeq(line, e1 + 1, e2 - 1)).val
  IN Uint(firstOctet * 256 + secondOctet)

\* extractDataPort as it would be if it took the first two numbers of the match.
extractDataPortFirstPair(line) ==
  IF MatchStart(line) = 0 THEN [port |-> 0, err |-> TRUE]
  ELSE [port |-> PortOfPair(line, MatchStart(line)), err |-> FALSE]

\* extractDataPort(line): the captured pair is the last two numbers of the
\* leftmost match; no match is an error.
extractDataPort(line) ==
  IF MatchStart(line) = 0 THEN [port |-> 0, err |-> TRUE]
  ELSE [port |-> PortOfPair(line, GroupsEnd(line, MatchStart(line), 4) + 1), err |-> FALSE]

\* strings.LastIndex(s, c), counted from 0, -1 when s does not hold c.
LastIndex(s, c) ==
  IF \E i \in 1..Len(s) : s[i] = c
  THEN (CHOOSE i \in 1..Len(s) : s[i] = c /\ \A j \in (i + 1)..Len(s) : s[j] # c) - 1
  ELSE -1
\* hasPort as it would be with >= in place of >.
hasPortOrEqual(s) == LastIndex(s, ":") >= LastIndex(s, "]")
\* hasPort(s): strings.LastIndex(s, ":") > strings.LastIndex(s, "]")
hasPort(s) == LastIndex(s, ":") > LastIndex(s, "]")


\* --------------------------------------------------------------- state
VARIABLES
  pc,        \* where the caller's current operation stands ("idle" between calls)
  cpc,       \* where the Cmd call in progress stands: none, write, read, ret
  call,      \* the operation called last and its arguments
  nCalls,    \* calls issued so far
  ret,       \* what the last finished operation returned
  cmd,       \* <<command, arg>> of the Cmd call in progress
  cret,      \* what the Cmd call returned: code, response, err
  control,   \* c.control: "open" or "closed"
  out,       \* commands written to the control channel, in order
  srvIn,     \* numbers of the commands the server has not answered yet
  srvXfer,   \* number of the RETR/STOR whose completion reply is due, 0 if none
  srvDone,   \* numbers of the commands whose whole reply the server has sent
  wire,      \* reply bytes sent by the server and still in the network
  inbound,   \* reply bytes that reached the client's socket, not yet read
  rbuf,      \* bytes held by the bufio.Reader of the Cmd call in progress
  response,  \* the response Cmd has accumulated
  taken,     \* bytes the Cmd call in progress has read from the socket
  events,    \* what the current operation has done so far, in order
  faults,    \* I/O failures and irregular replies injected so far
  dataPort,  \* the port decoded from the PASV reply
  dataConn,  \* downloadConn / uploadConn: "nil", "open" or "closed"
  openConns, \* data connections of this Connection that are open
  dataBuf,   \* bytes the server has still to send on the data connection
  remote,    \* content of the remote file
  file,      \* content of the local file the transfer has opened
  fpos,      \* offset of that file
  result,    \* GetBuffer's result buffer
  sent,      \* <<B>> when the remote file holds the source B of an upload that succeeded, <<>> otherwise
  host,      \* the argument of Dial
  netDials,  \* calls of net.Dial("tcp", host) made so far
  hasConn,   \* the caller holds a *Connection
  welcomeMsg,\* the bytes Dial has read into welcomeMsg
  fnIn,      \* the argument a function is applied to, <<>> when none is
  fnOut      \* what the function returned, <<>> before it is applied

ctl == <<control, out, srvIn, srvXfer, srvDone, wire, inbound>>
cmdv == <<cpc, cmd, cret, rbuf, response, taken>>
vars == <<pc, cpc, call, nCalls, ret, cmd, cret, control, out, srvIn, srvXfer,
          srvDone, wire, inbound, rbuf, response, taken, events, faults,
          dataPort, dataConn, openConns, dataBuf, remote, file, fpos, result,
          sent, host, netDials, hasConn, welcomeMsg, fnIn, fnOut>>
dialv == <<host, netDials, hasConn, welcomeMsg>>
\* every variable of the Connection and its caller
progv == <<pc, cpc, call, nCalls, ret, cmd, cret, control, out, srvIn, srvXfer,
           srvDone, wire, inbound, rbuf, response, taken, events, faults,
           dataPort, dataConn, openConns, dataBuf, remote, file, fpos, result,
           sent, host, netDials, hasConn, welcomeMsg>>
fnv == <<fnIn, fnOut>>
xfer == <<dataPort, dataConn, openConns, dataBuf, remote, file, fpos, result>>

NoCret == [code |-> 0, response |-> <<>>, err |-> "nil"]
NoRet == [err |-> "nil", val |-> <<>>]

\* No call is in progress and none has been made.
Idle ==
  /\ pc = "idle" /\ cpc = "none"
  /\ call = [op |-> "none", a1 |-> "", a2 |-> ""]
  /\ nCalls = 0
  /\ ret = NoRet
  /\ cmd = <<"", "">>
  /\ cret = NoCret
  /\ out = <<>> /\ srvIn = <<>> /\ srvXfer = 0 /\ srvDone = {}
  /\ wire = <<>> /\ inbound = <<>>
  /\ rbuf = <<>> /\ response = <<>> /\ taken = 0
  /\ events = <<>>
  /\ faults = 0
  /\ dataPort = 0 /\ dataConn = "nil" /\ openConns = 0 /\ dataBuf = <<>>
  /\ file = <<>> /\ fpos = 0 /\ result = <<>>
  /\ sent = <<>>

\* No Connection exists: Dial has not been called.
NoConnection ==
  /\ control = "none" /\ hasConn = FALSE
  /\ host = <<>> /\ netDials = 0 /\ welcomeMsg = <<>>
  /\ remote = <<>>

\* The Connection a Dial of "h:1" has returned, its welcome message read whole.
Init ==
  /\ Idle
  /\ control = "open" /\ hasConn = TRUE
  /\ host = <<"h", ":", "1">> /\ netDials = 1 /\ welcomeMsg = R200
  /\ remote \in Contents
  /\ fnIn = <<>> /\ fnOut = <<>>

\* ------------------------------------------------------ Connection.Cmd
\* The caller of Cmd: Cmd starts at its write.
InvokeCmd(command, arg) ==
  /\ cpc' = "write"
  /\ cmd' = <<command, arg>>
  /\ cret' = NoCret
  /\ rbuf' = <<>> /\ response' = <<>> /\ taken' = 0

\* Cmd returns (code, resp, err); its reader and what it still holds are dropped.
CmdReturns(code, resp, err) ==
  /\ cpc' = "ret"
  /\ cret' = [code |-> code, response |-> resp, err |-> err]
  /\ rbuf' = <<>> /\ response' = <<>>

\* c.control.Write([]byte(formattedCommand)) succeeds.
CmdWrite ==
  /\ cpc = "write" /\ control = "open"
  /\ out' = Append(out, cmd)
  /\ srvIn' = Append(srvIn, Len(out) + 1)
  /\ cpc' = "read"
  /\ events' = Append(events, <<"write", cmd[1]>>)
  /\ UNCHANGED <<pc, call, nCalls, ret, cmd, cret, control, srvXfer, srvDone, wire,
                 inbound, rbuf, response, taken, faults>>
  /\ UNCHANGED xfer
  /\ UNCHANGED <<dialv, fnv, sent>>

\* c.control.Write fails: return 0, "", err.
CmdWriteFails ==
  /\ cpc = "write"
  /\ control = "closed" \/ faults < MaxFaults
  /\ faults' = IF control = "closed" THEN faults ELSE faults + 1
  /\ CmdReturns(0, <<>>, "io")
  /\ events' = Append(events, <<"wfail", cmd[1]>>)
  /\ UNCHANGED <<pc, call, nCalls, ret, cmd, taken>>
  /\ UNCHANGED ctl
  /\ UNCHANGED xfer
  /\ UNCHANGED <<dialv, fnv, sent>>

\* The status code of a complete response: strconv.Atoi(response[0:3]).
CmdCode(resp) == Atoi(SubSeq(Text(resp), 1, 3))

\* reader.ReadString('\n') finds a whole line in the reader's buffer.
CmdReadString ==
  /\ cpc = "read"
  /\ IndexOfLF(rbuf) # 0
  /\ LET k == IndexOfLF(rbuf)
         ln == SubSeq(rbuf, 1, k)
         resp == response \o ln
     IN IF MatchString(Text(ln))
        THEN /\ IF CmdCode(resp).err
                THEN CmdReturns(0, resp, "atoi")
                ELSE CmdReturns(Uint(CmdCode(resp).val), resp, "nil")
             /\ events' = Append(events, <<IF CmdCode(resp).err THEN "atoi" ELSE "reply", cmd[1]>>)
        ELSE /\ response' = resp
             /\ rbuf' = Drop(rbuf, k)
             /\ UNCHANGED <<cpc, cret, events>>
  /\ UNCHANGED <<pc, call, nCalls, ret, cmd, taken, faults>>
  /\ UNCHANGED ctl
  /\ UNCHANGED xfer
  /\ UNCHANGED <<dialv, fnv, sent>>

\* The reader's buffer holds no whole line: it reads what the socket holds.
CmdFill ==
  /\ cpc = "read" /\ control = "open"
  /\ IndexOfLF(rbuf) = 0
  /\ inbound # <<>>
  /\ LET n == Min(Len(inbound), BufSize)
     IN /\ rbuf' = rbuf \o SubSeq(inbound, 1, n)
        /\ inbound' = Drop(inbound, n)
        /\ taken' = taken + n
  /\ UNCHANGED <<pc, cpc, call, nCalls, ret, cmd, cret, control, out, srvIn, srvXfer,
                 srvDone, wire, response, events, faults>>
  /\ UNCHANGED xfer
  /\ UNCHANGED <<dialv, fnv, sent>>

\* The read loop as it would be if it went on after a failed read.
CmdReadRetries ==
  /\ cpc = "read"
  /\ IndexOfLF(rbuf) = 0
  /\ control = "closed" \/ (inbound = <<>> /\ faults < MaxFaults)
  /\ faults' = IF control = "closed" THEN faults ELSE faults + 1
  /\ UNCHANGED <<pc, call, nCalls, ret, events>>
  /\ UNCHANGED cmdv
  /\ UNCHANGED ctl
  /\ UNCHANGED xfer
  /\ UNCHANGED <<dialv, fnv, sent>>

\* The read of the control channel fails: return 0, "", err.
CmdReadFails ==
  /\ cpc = "read"
  /\ IndexOfLF(rbuf) = 0
  /\ control = "closed" \/ (inbound = <<>> /\ faults < MaxFaults)
  /\ faults' = IF control = "closed" THEN faults ELSE faults + 1
  /\ CmdReturns(0, <<>>, "io")
  /\ events' = Append(events, <<"rfail", cmd[1]>>)
  /\ UNCHANGED <<pc, call, nCalls, ret, cmd, taken>>
  /\ UNCHANGED ctl
  /\ UNCHANGED xfer
  /\ UNCHANGED <<dialv, fnv, sent>>

\* ----------------------------------------------------------- the caller
\* A call starts with fresh local variables; what the call before it
\* logged and returned is forgotten.
Begin(op, a1, a2) ==
  /\ pc = "idle" /\ nCalls < MaxOps
  /\ hasConn
  /\ nCalls' = nCalls + 1
  /\ call' = [op |-> op, a1 |-> a1, a2 |-> a2]
  /\ events' = <<>>
  /\ dataPort' = 0 /\ dataConn' = "nil" /\ dataBuf' = <<>>
  /\ file' = <<>> /\ fpos' = 0 /\ result' = <<>>
  /\ UNCHANGED <<openConns, remote>>

\* The operation returns to the caller.
Return(err, val) ==
  /\ pc' = "idle"
  /\ ret' = [err |-> err, val |-> val]
  /\ cpc' = "none"
  /\ cmd' = <<"", "">> /\ cret' = NoCret /\ taken' = 0
  /\ UNCHANGED <<rbuf, response>>

\* The caller calls Cmd itself.
CallCmd ==
  /\ Begin("Cmd", "NOOP", "")
  /\ pc' = "CMD"
  /\ InvokeCmd("NOOP", "")
  /\ ret' = NoRet
  /\ UNCHANGED faults
  /\ UNCHANGED ctl
  /\ UNCHANGED <<dialv, fnv, sent>>

CmdDone ==
  /\ pc = "CMD" /\ cpc = "ret"
  /\ Return(cret.err, cret.response)
  /\ UNCHANGED <<call, nCalls, events, faults>>
  /\ UNCHANGED ctl
  /\ UNCHANGED xfer
  /\ UNCHANGED <<dialv, fnv, sent>>

\* ---------------------------------------------------- Connection.Login
\* Login as it would be with the check of the password left out.
LoginRejectsBlankUser(user, password) == user = ""

\* if user == "" { return error }; if password == "" { return error }
LoginRejectsBlank(user, password) == user = "" \/ password = ""

CallLogin ==
  \E user \in Users, password \in Passwords :
    /\ Begin("Login", user, password)
    /\ IF LoginRejectsBlank(user, password)
       THEN /\ pc' = "idle"
            /\ ret' = [err |-> "blank", val |-> <<>>]
            /\ UNCHANGED cmdv
       ELSE /\ pc' = "USER"
            /\ InvokeCmd("USER", user)
            /\ ret' = NoRet
    /\ UNCHANGED faults
    /\ UNCHANGED ctl
    /\ UNCHANGED <<dialv, fnv, sent>>

\* _, _, err := c.Cmd("USER", user); _, _, err = c.Cmd("PASS", password)
LoginAfterUser ==
  /\ pc = "USER" /\ cpc = "ret"
  /\ pc' = "PASS"
  /\ InvokeCmd("PASS", call.a2)
  /\ UNCHANGED <<call, nCalls, ret, events, faults>>
  /\ UNCHANGED ctl
  /\ UNCHANGED xfer
  /\ UNCHANGED <<dialv, fnv, sent>>

\* if err != nil { return err }; return nil
LoginAfterPass ==
  /\ pc = "PASS" /\ cpc = "ret"
  /\ Return(cret.err, <<>>)
  /\ UNCHANGED <<call, nCalls, events, faults>>
  /\ UNCHANGED ctl
  /\ UNCHANGED xfer
  /\ UNCHANGED <<dialv, fnv, sent>>

\* --------------------------------------------------- Connection.Logout
CallLogout ==
  /\ Begin("Logout", "", "")
  /\ pc' = "QUIT"
  /\ InvokeCmd("QUIT", "")
  /\ ret' = NoRet
  /\ UNCHANGED faults
  /\ UNCHANGED ctl
  /\ UNCHANGED <<dialv, fnv, sent>>

\* Cmd("QUIT") failed: return err, and the control channel stays as it is.
LogoutQuitFailed ==
  /\ pc = "QUIT" /\ cpc = "ret" /\ cret.err # "nil"
  /\ Return(cret.err, <<>>)
  /\ UNCHANGED <<call, nCalls, events, faults>>
  /\ UNCHANGED ctl
  /\ UNCHANGED xfer
  /\ UNCHANGED <<dialv, fnv, sent>>

\* err = c.control.Close(), which may report an error.
LogoutClose ==
  /\ pc = "QUIT" /\ cpc = "ret" /\ cret.err = "nil"
  /\ control' = "closed"
  /\ events' = Append(events, <<"close", "control">>)
  /\ \E closeErr \in {"nil", "close"} :
       /\ closeErr = "nil" \/ faults < MaxFaults
       /\ faults' = IF closeErr = "nil" THEN faults ELSE faults + 1
       /\ Return(closeErr, <<>>)
  /\ UNCHANGED <<call, nCalls, out, srvIn, srvXfer, srvDone, wire, inbound>>
  /\ UNCHANGED xfer
  /\ UNCHANGED <<dialv, fnv, sent>>

\* ------------------------- GetBuffer, DownloadFile and UploadFile
\* A transfer as it would be with the data connection dialed before the
\* transfer command is written.
TransferStepsDialFirst(op) ==
  IF op = "GetBuffer"
  THEN <<"PASV", "TYPE", "DIAL", "XFER", "COPY">>
  ELSE <<"PASV", "TYPE", "DIAL", "XFER", "OPEN", "COPY">>

\* What a transfer does, in the order of its body.
TransferSteps(op) ==
  IF op = "GetBuffer"
  THEN <<"PASV", "TYPE", "XFER", "DIAL", "COPY">>
  ELSE <<"PASV", "TYPE", "XFER", "DIAL", "OPEN", "COPY">>

StepAfter(op, step) ==
  LET steps == TransferSteps(op)
      i == CHOOSE j \in 1..Len(steps) : steps[j] = step
  IN steps[i + 1]

\* The transfer command: RETR <src> for the downloads, STOR <dest> for the upload.
TransferCommand(op) == IF op = "UploadFile" THEN "STOR" ELSE "RETR"

\* The step a transfer takes next is a call of Cmd or a step of its own.
GoTo(step) ==
  /\ pc' = step
  /\ IF step = "TYPE"
     THEN InvokeCmd("TYPE", call.a1)
     ELSE /\ cpc' = "none"
          /\ UNCHANGED <<cmd, cret, rbuf, response, taken>>

CallTransfer ==
  \E op \in Transfers, mode \in Modes, timeout \in Timeouts :
    /\ Begin(op, mode, timeout)
    /\ pc' = "PASV"
    /\ InvokeCmd("PASV", "")
    /\ ret' = NoRet
    /\ UNCHANGED faults
    /\ UNCHANGED ctl
    /\ UNCHANGED <<dialv, fnv, sent>>

\* A transfer as it would be without the deferred Close.
DeferredCloseMissing(conn) == conn

\* The deferred Close of the data connection.
DeferredClose(conn) == IF conn = "open" THEN "closed" ELSE conn

\* A return before the data connection is dialed: nothing is deferred yet.
TransferReturnsEarly(err) ==
  /\ Return(err, <<>>)
  /\ UNCHANGED <<call, nCalls, events, faults>>
  /\ UNCHANGED ctl
  /\ UNCHANGED xfer

\* A return after the dial: the deferred calls run, the data connection closes.
TransferReturns(err, val) ==
  /\ Return(err, val)
  /\ dataConn' = DeferredClose(dataConn)
  /\ openConns' = IF dataConn = "open" /\ dataConn' = "closed" THEN openConns - 1 ELSE openConns
  /\ events' = Append(events, <<"return", err>>)

\* pasvCode, pasvLine, err := c.Cmd("PASV", ""), the check of the code and
\* extractDataPort(pasvLine).
TransferAfterPasv ==
  /\ pc = "PASV" /\ cpc = "ret"
  /\ IF cret.err # "nil" THEN TransferReturnsEarly(cret.err)
     ELSE IF checkResponseCode(2, cret.code) THEN TransferReturnsEarly("code")
     ELSE IF extractDataPort(Text(cret.response)).err THEN TransferReturnsEarly("port")
     ELSE /\ dataPort' = extractDataPort(Text(cret.response)).port
          /\ GoTo(StepAfter(call.op, "PASV"))
          /\ UNCHANGED <<call, nCalls, ret, events, faults, dataConn, openConns,
                         dataBuf, remote, file, fpos, result>>
          /\ UNCHANGED ctl
  /\ UNCHANGED <<dialv, fnv, sent>>

\* The TYPE exchange as it would be without the check of its code.
TransferAfterTypeUnchecked ==
  /\ pc = "TYPE" /\ cpc = "ret"
  /\ IF cret.err # "nil" THEN TransferReturnsEarly(cret.err)
     ELSE /\ GoTo(StepAfter(call.op, "TYPE"))
          /\ UNCHANGED <<call, nCalls, ret, events, faults>>
          /\ UNCHANGED ctl
          /\ UNCHANGED xfer
  /\ UNCHANGED <<dialv, fnv, sent>>

\* typeCode, typeLine, err := c.Cmd("TYPE", mode) and the check of the code.
TransferAfterType ==
  /\ pc = "TYPE" /\ cpc = "ret"
  /\ IF cret.err # "nil" THEN TransferReturnsEarly(cret.err)
     ELSE IF checkResponseCode(2, cret.code) THEN TransferReturnsEarly("code")
     ELSE /\ GoTo(StepAfter(call.op, "TYPE"))
          /\ UNCHANGED <<call, nCalls, ret, events, faults>>
          /\ UNCHANGED ctl
          /\ UNCHANGED xfer
  /\ UNCHANGED <<dialv, fnv, sent>>

\* c.control.Write(command) of RETR/STOR: no reply is read.
TransferWrite ==
  /\ pc = "XFER" /\ control = "open"
  /\ out' = Append(out, <<TransferCommand(call.op), "path">>)
  /\ srvIn' = Append(srvIn, Len(out) + 1)
  /\ events' = Append(events, <<"write", TransferCommand(call.op)>>)
  /\ GoTo(StepAfter(call.op, "XFER"))
  /\ UNCHANGED <<call, nCalls, ret, control, srvXfer, srvDone, wire, inbound, faults>>
  /\ UNCHANGED xfer
  /\ UNCHANGED <<dialv, fnv, sent>>

TransferWriteFails ==
  /\ pc = "XFER"
  /\ control = "closed" \/ faults < MaxFaults
  /\ faults' = IF control = "closed" THEN faults ELSE faults + 1
  /\ Return("io", <<>>)
  /\ events' = Append(events, <<"wfail", TransferCommand(call.op)>>)
  /\ UNCHANGED <<call, nCalls>>
  /\ UNCHANGED ctl
  /\ UNCHANGED xfer
  /\ UNCHANGED <<dialv, fnv, sent>>

\* net.Dial("tcp", remoteConnectString) succeeds; defer conn.Close().  The
\* server sends the remote file on a download and empties it on an upload.
TransferDial ==
  /\ pc = "DIAL"
  /\ dataConn' = "open"
  /\ openConns' = openConns + 1
  /\ dataBuf' = IF call.op = "UploadFile" THEN <<>> ELSE remote
  /\ remote' = IF call.op = "UploadFile" THEN <<>> ELSE remote
  /\ sent' = IF call.op = "UploadFile" THEN <<>> ELSE sent
  /\ events' = Append(events, <<"dial", "data">>)
  /\ GoTo(StepAfter(call.op, "DIAL"))
  /\ UNCHANGED <<call, nCalls, ret, faults, dataPort, file, fpos, result>>
  /\ UNCHANGED ctl
  /\ UNCHANGED <<dialv, fnv>>

\* net.Dial fails and returns a nil connection: defer conn.Close() on it is a
\* nil dereference, the goroutine panics before the error is returned.
TransferDialFails ==
  /\ pc = "DIAL"
  /\ faults < MaxFaults
  /\ faults' = faults + 1
  /\ pc' = "panic"
  /\ events' = Append(events, <<"dialfail", "data">>)
  /\ UNCHANGED <<call, nCalls, ret>>
  /\ UNCHANGED cmdv
  /\ UNCHANGED ctl
  /\ UNCHANGED xfer
  /\ UNCHANGED <<dialv, fnv, sent>>

\* os.OpenFile of the local file succeeds: the destination is opened without
\* O_TRUNC and keeps what it holds, the source is read from its start.
TransferOpen ==
  /\ pc = "OPEN"
  /\ \E content \in Contents : file' = content
  /\ fpos' = 0
  /\ events' = Append(events, <<"open", "file">>)
  /\ GoTo(StepAfter(call.op, "OPEN"))
  /\ UNCHANGED <<call, nCalls, ret, faults, dataPort, dataConn, openConns, dataBuf,
                 remote, result>>
  /\ UNCHANGED ctl
  /\ UNCHANGED <<dialv, fnv, sent>>

\* os.OpenFile fails: return the error; the deferred calls run.
TransferOpenFails ==
  /\ pc = "OPEN"
  /\ faults < MaxFaults
  /\ faults' = faults + 1
  /\ TransferReturns("file", <<>>)
  /\ UNCHANGED <<call, nCalls, dataPort, dataBuf, remote, file, fpos, result>>
  /\ UNCHANGED ctl
  /\ UNCHANGED <<dialv, fnv, sent>>

\* What a Read of the data connection or of the source file may return when
\* `left` bytes remain: some bytes, the end of the stream, or an error (a
\* deadline that expires is such an error) with or without bytes.
ReadOutcomes(left) ==
  {[n |-> n, err |-> "nil"] : n \in 1..Min(left, bufLen)}
    \cup (IF left = 0 THEN {[n |-> 0, err |-> "EOF"]} ELSE {})
    \cup (IF faults < MaxFaults
          THEN {[n |-> n, err |-> "io"] : n \in 0..Min(left, bufLen)}
          ELSE {})

\* s with the bytes b written at offset pos.
WriteAt(s, pos, b) ==
  [i \in 1..(IF pos + Len(b) > Len(s) THEN pos + Len(b) ELSE Len(s)) |->
     IF i > pos /\ i <= pos + Len(b) THEN b[i - pos] ELSE s[i]]

\* One turn of GetBuffer's loop.  result.Write assigns its (nil) error to
\* readErr, so an error that comes with bytes is dropped and the loop goes on.
GetBufferCopy ==
  /\ pc = "COPY" /\ call.op = "GetBuffer"
  /\ \E r \in ReadOutcomes(Len(dataBuf)) :
       LET got == SubSeq(dataBuf, 1, r.n)
           readErr == IF r.n > 0 THEN "nil" ELSE r.err
       IN /\ dataBuf' = Drop(dataBuf, r.n)
          /\ result' = result \o got
          /\ faults' = IF r.err = "io" THEN faults + 1 ELSE faults
          /\ IF readErr = "EOF" THEN TransferReturns("nil", result')
             ELSE IF readErr # "nil" THEN TransferReturns(readErr, <<>>)
             ELSE /\ events' = Append(events, <<"copy", "data">>)
                  /\ UNCHANGED <<pc, cpc, ret, cmd, cret, rbuf, response, taken,
                                 dataConn, openConns>>
  /\ UNCHANGED <<call, nCalls, dataPort, remote, file, fpos>>
  /\ UNCHANGED ctl
  /\ UNCHANGED <<dialv, fnv, sent>>

\* One turn of DownloadFile's loop: read the data connection, write the file.
DownloadCopy ==
  /\ pc = "COPY" /\ call.op = "DownloadFile"
  /\ \E r \in ReadOutcomes(Len(dataBuf)), writeErr \in {"nil", "io"} :
       LET got == SubSeq(dataBuf, 1, r.n)
       IN /\ writeErr = "io" => r.n > 0 /\ r.err = "nil" /\ faults < MaxFaults
          /\ dataBuf' = Drop(dataBuf, r.n)
          /\ faults' = IF r.err = "io" \/ writeErr = "io" THEN faults + 1 ELSE faults
          /\ IF writeErr = "io"
             THEN /\ TransferReturns("write", <<>>)
                  /\ UNCHANGED <<file, fpos>>
             ELSE /\ file' = WriteAt(file, fpos, got)
                  /\ fpos' = fpos + r.n
                  /\ IF r.err = "EOF" THEN TransferReturns("nil", file')
                     ELSE IF r.err # "nil" THEN TransferReturns(r.err, <<>>)
                     ELSE /\ events' = Append(events, <<"copy", "data">>)
                          /\ UNCHANGED <<pc, cpc, ret, cmd, cret, rbuf, response, taken,
                                         dataConn, openConns>>
  /\ UNCHANGED <<call, nCalls, dataPort, remote, result>>
  /\ UNCHANGED ctl
  /\ UNCHANGED <<dialv, fnv, sent>>

\* One turn of UploadFile's loop: read the file, write the data connection.
UploadCopy ==
  /\ pc = "COPY" /\ call.op = "UploadFile"
  /\ \E r \in ReadOutcomes(Len(file) - fpos), writeErr \in {"nil", "io"} :
       LET got == SubSeq(file, fpos + 1, fpos + r.n)
       IN /\ writeErr = "io" => r.n > 0 /\ r.err = "nil" /\ faults < MaxFaults
          /\ fpos' = fpos + r.n
          /\ faults' = IF r.err = "io" \/ writeErr = "io" THEN faults + 1 ELSE faults
          /\ IF writeErr = "io"
             THEN /\ TransferReturns("write", <<>>)
                  /\ UNCHANGED <<remote, sent>>
             ELSE /\ remote' = remote \o got
                  /\ sent' = IF r.err = "EOF" THEN <<file>> ELSE <<>>
                  /\ IF r.err = "EOF" THEN TransferReturns("nil", file)
                     ELSE IF r.err # "nil" THEN TransferReturns(r.err, <<>>)
                     ELSE /\ events' = Append(events, <<"copy", "data">>)
                          /\ UNCHANGED <<pc, cpc, ret, cmd, cret, rbuf, response, taken,
                                         dataConn, openConns>>
  /\ UNCHANGED <<call, nCalls, dataPort, dataBuf, file, result>>
  /\ UNCHANGED ctl
  /\ UNCHANGED <<dialv, fnv>>

\* ------------------------------------------------ server and network
\* The client sees the server and the network only through what its socket
\* holds when it reads: the replies and deliveries that precede a read are
\* taken when the client stands at that read, in any number and to any extent.
ClientReads == cpc = "read" /\ control = "open" /\ IndexOfLF(rbuf) = 0

\* The server answers the oldest command it has received.
ServerReply ==
  /\ ClientReads
  /\ srvIn # <<>> /\ srvXfer = 0
  /\ LET id == Head(srvIn)
     IN IF out[id][1] \in {"RETR", "STOR"}
        THEN /\ wire' = wire \o Tag(R150, id)
             /\ srvXfer' = id
             /\ UNCHANGED <<srvDone, faults>>
        ELSE /\ \E r \in {PlainReply(out[id][1])} \cup OddReplies :
                  /\ r \in OddReplies => faults < MaxFaults
                  /\ faults' = IF r \in OddReplies THEN faults + 1 ELSE faults
                  /\ wire' = wire \o Tag(r, id)
             /\ srvDone' = srvDone \cup {id}
             /\ UNCHANGED srvXfer
  /\ srvIn' = Tail(srvIn)
  /\ UNCHANGED <<pc, cpc, call, nCalls, ret, cmd, cret, control, out, inbound, rbuf,
                 response, taken, events>>
  /\ UNCHANGED xfer
  /\ UNCHANGED <<dialv, fnv, sent>>

\* The network delivers some of the lines in flight to the client's socket
\* (segments end where the server's lines end).
Deliver ==
  /\ ClientReads
  /\ wire # <<>>
  /\ \E n \in {i \in 1..Len(wire) : wire[i][1] = LF} :
       /\ inbound' = inbound \o SubSeq(wire, 1, n)
       /\ wire' = Drop(wire, n)
  /\ UNCHANGED <<pc, cpc, call, nCalls, ret, cmd, cret, control, out, srvIn, srvXfer,
                 srvDone, rbuf, response, taken, events, faults>>
  /\ UNCHANGED xfer
  /\ UNCHANGED <<dialv, fnv, sent>>

\* The data connection is closed: the server sends the reply that ends the
\* transfer.
ServerComplete ==
  /\ ClientReads
  /\ srvXfer # 0 /\ openConns = 0
  /\ wire' = wire \o Tag(R226, srvXfer)
  /\ srvDone' = srvDone \cup {srvXfer}
  /\ srvXfer' = 0
  /\ UNCHANGED <<pc, cpc, call, nCalls, ret, cmd, cret, control, out, srvIn, inbound,
                 rbuf, response, taken, events, faults>>
  /\ UNCHANGED xfer
  /\ UNCHANGED <<dialv, fnv, sent>>

Next ==
  \/ CallCmd \/ CmdDone
  \/ CallTransfer \/ TransferAfterPasv \/ TransferAfterType
  \/ TransferWrite \/ TransferWriteFails \/ TransferDial \/ TransferDialFails
  \/ TransferOpen \/ TransferOpenFails
  \/ GetBufferCopy \/ DownloadCopy \/ UploadCopy
  \/ ServerComplete
  \/ CallLogin \/ LoginAfterUser \/ LoginAfterPass
  \/ CallLogout \/ LogoutQuitFailed \/ LogoutClose
  \/ CmdWrite \/ CmdWriteFails \/ CmdReadString \/ CmdFill \/ CmdReadFails
  \/ ServerReply \/ Deliver

Spec == Init /\ [][Next]_vars


\* ------------------------------------- closing the channel under a Cmd
\* The control channel is closed on the client's side while Cmd is blocked
\* in its read, no whole line at hand.
CloseWhileWaiting ==
  /\ cpc = "read" /\ control = "open"
  /\ IndexOfLF(rbuf) = 0
  /\ control' = "closed"
  /\ events' = Append(events, <<"close", "control">>)
  /\ UNCHANGED <<pc, call, nCalls, ret, out, srvIn, srvXfer, srvDone, wire, inbound, faults>>
  /\ UNCHANGED cmdv
  /\ UNCHANGED xfer
  /\ UNCHANGED <<dialv, fnv, sent>>

\* A Read blocked on a connection that has been closed returns its error.
CmdReadClosed == control = "closed" /\ CmdReadFails

\* The caller calls Cmd only; a blocked Read of a closed channel is woken.
NextCmd ==
  \/ CallCmd \/ CmdDone
  \/ CmdWrite \/ CmdWriteFails \/ CmdReadString \/ CmdFill \/ CmdReadFails
  \/ ServerReply \/ Deliver
  \/ CloseWhileWaiting
SpecCmdFair == Init /\ [][NextCmd]_vars /\ WF_vars(CmdReadClosed)

\* --------------------------------------------- one Connection per test
\* The caller leaves its Connection and dials a new one to the same server,
\* as every test of client_test.go does; the welcome is the plain one and
\* is read whole.  The server keeps its files.
Redial ==
  /\ pc = "idle" /\ nCalls >= 1 /\ netDials < MaxDials
  /\ netDials' = netDials + 1
  /\ control' = "open" /\ hasConn' = TRUE
  /\ out' = <<>> /\ srvIn' = <<>> /\ srvXfer' = 0 /\ srvDone' = {}
  /\ wire' = <<>> /\ inbound' = <<>>
  /\ UNCHANGED <<pc, call, nCalls, ret, events, faults, sent, host, welcomeMsg>>
  /\ UNCHANGED cmdv
  /\ UNCHANGED xfer
  /\ UNCHANGED fnv
NextRoundTrip == Next \/ Redial
SpecRoundTrip == Init /\ [][NextRoundTrip]_vars

\* ----------------------------------------------------------------- Dial
\* The host strings Dial may be given, and the welcome texts a server may send.
HostChars == {"h", ":", "]"}
Hosts == UNION {[1..n -> HostChars] : n \in 0..MaxHost}
WelcomeTexts == {R200, R500, RText, RMulti, RSigned}

\* welcomeMsg[0:3]: the buffer holds zero bytes where nothing was read.
WelcomeHead(msg) == [i \in 1..3 |-> IF i <= Len(msg) THEN msg[i] ELSE NUL]
\* code, err := strconv.Atoi(string(welcomeMsg[0:3])): code is 0 when Atoi
\* fails, and err is overwritten by the next statement.
WelcomeCode(msg) == Atoi(WelcomeHead(msg)).val
\* The check of the welcome as it would be if it tested Atoi's error only.
WelcomeRejectedAtoiOnly(msg) == Atoi(WelcomeHead(msg)).err
\* err = checkResponseCode(2, uint(code)); err != nil
WelcomeRejected(msg) == checkResponseCode(2, Uint(WelcomeCode(msg)))

\* Dial(host) is called and returns (nil, err) or (&Connection{...}, nil).
DialCalled(h) ==
  /\ pc = "idle" /\ call.op = "none" /\ control = "none"
  /\ host' = h
  /\ call' = [op |-> "Dial", a1 |-> "", a2 |-> ""]
  /\ pc' = "idle"
  /\ UNCHANGED <<nCalls, cpc, cmd, cret, out, srvIn, srvXfer, srvDone, inbound, rbuf, response,
                 taken, faults, sent>>
  /\ UNCHANGED xfer
  /\ UNCHANGED fnv

\* host == "" or !hasPort(host): return nil, error before net.Dial is called.
DialRefused ==
  \E h \in Hosts :
    /\ DialCalled(h)
    /\ h = <<>> \/ ~hasPort(h)
    /\ ret' = [err |-> IF h = <<>> THEN "blank" ELSE "port", val |-> <<>>]
    /\ UNCHANGED <<control, wire, events, netDials, hasConn, welcomeMsg>>

\* net.Dial("tcp", host) fails: return nil, err.
DialFails ==
  \E h \in Hosts :
    /\ DialCalled(h)
    /\ h # <<>> /\ hasPort(h)
    /\ netDials' = netDials + 1
    /\ events' = <<<<"dialfail", "control">>>>
    /\ ret' = [err |-> "dial", val |-> <<>>]
    /\ UNCHANGED <<control, wire, hasConn, welcomeMsg>>

\* net.Dial succeeds and conn.Read(welcomeMsg) reports an error, whatever it
\* has read: return nil, error.  The connection is left open.
DialReadFails ==
  \E h \in Hosts, w \in WelcomeTexts :
    \E n \in 0..Min(Len(w), welcomeLen) :
      /\ DialCalled(h)
      /\ h # <<>> /\ hasPort(h)
      /\ netDials' = netDials + 1
      /\ control' = "open"
      /\ welcomeMsg' = SubSeq(w, 1, n)
      /\ wire' = Tag(Drop(w, n), 0)
      /\ events' = <<<<"dial", "control">>, <<"rfail", "welcome">>>>
      /\ ret' = [err |-> "read", val |-> <<>>]
      /\ UNCHANGED hasConn

\* net.Dial succeeds and conn.Read(welcomeMsg) returns the bytes of the
\* welcome that have arrived: the Connection is returned when the code of
\* welcomeMsg[0:3] passes checkResponseCode(2, code).  What the server sent
\* beyond them stays on the control channel.
DialReadsWelcome ==
  \E h \in Hosts, w \in WelcomeTexts :
    \E n \in 1..Min(Len(w), welcomeLen) :
      /\ DialCalled(h)
      /\ h # <<>> /\ hasPort(h)
      /\ netDials' = netDials + 1
      /\ control' = "open"
      /\ welcomeMsg' = SubSeq(w, 1, n)
      /\ wire' = Tag(Drop(w, n), 0)
      /\ events' = <<<<"dial", "control">>, <<"read", "welcome">>>>
      /\ ret' = [err |-> IF WelcomeRejected(welcomeMsg') THEN "welcome" ELSE "nil", val |-> <<>>]
      /\ hasConn' = ~WelcomeRejected(welcomeMsg')

InitDial == Idle /\ NoConnection /\ fnIn = <<>> /\ fnOut = <<>>
NextDial == DialRefused \/ DialFails \/ DialReadFails \/ DialReadsWelcome
SpecDial == InitDial /\ [][NextDial]_vars

\* ---------------------------------------- a session: Dial, then calls
\* The caller dials "h:h", reads the welcome as far as it has arrived, and
\* issues its calls on the Connection it was given.
DialSession == control = "none" /\ DialReadsWelcome /\ host' = <<"h", ":", "h">>
NextSession == DialSession \/ Next
SpecSession == InitDial /\ [][NextSession]_vars


\* ---------------------------------------------------- checkResponseCode
\* checkResponseCode is applied to an expected code and to every code below
\* CodeLimit: fnOut holds, for each code, whether an error is returned.
InitCode ==
  /\ Idle /\ NoConnection
  /\ fnIn \in {<<expectCode>> : expectCode \in 1..(CodeLimit - 1)}
  /\ fnOut = <<>>
ApplyCheckResponseCode ==
  /\ fnOut = <<>>
  /\ fnOut' = <<[code \in 0..(CodeLimit - 1) |-> checkResponseCode(fnIn[1], Uint(code))]>>
  /\ UNCHANGED <<fnIn, progv>>
NextCode == ApplyCheckResponseCode
SpecCode == InitCode /\ [][NextCode]_vars


\* ------------------------------------------------------ extractDataPort
\* The texts extractDataPort is applied to: up to MaxFields decimal numbers,
\* each two joined by a comma or by a dot, after a prefix and before ")".
Numbers == {7, 256}
Seps == {",", "."}
Pres == {<<>>, <<"8", " ", "(">>}
PortInputs ==
  UNION {[pre : Pres, fields : [1..k -> Numbers], seps : [1..(k - 1) -> Seps]] :
           k \in 1..MaxFields}

\* The decimal text of a number, as the server writes it.
RECURSIVE Decimal(_)
Decimal(n) ==
  IF n < 10 THEN <<Digits[n + 1]>>
  ELSE Decimal(n \div 10) \o <<Digits[(n % 10) + 1]>>
RECURSIVE Join(_, _)
Join(fields, seps) ==
  IF Len(fields) = 1 THEN Decimal(fields[1])
  ELSE Decimal(fields[1]) \o <<seps[1]>> \o Join(Tail(fields), Tail(seps))
Line(in) == in.pre \o Join(in.fields, in.seps) \o <<")">>

InitPort ==
  /\ Idle /\ NoConnection
  /\ fnIn \in {<<in>> : in \in PortInputs}
  /\ fnOut = <<>>
ApplyExtractDataPort ==
  /\ fnOut = <<>>
  /\ fnOut' = <<extractDataPort(Line(fnIn[1]))>>
  /\ UNCHANGED <<fnIn, progv>>
NextPort == ApplyExtractDataPort
SpecPort == InitPort /\ [][NextPort]_vars


\* ========================================================== properties
Has(e) == \E i \in 1..Len(events) : events[i] = e
Pos(e) == IF Has(e) THEN CHOOSE i \in 1..Len(events) : events[i] = e /\ \A j \in 1..(i - 1) : events[j] # e ELSE 0
\* Whenever b has happened in the current operation, a has happened before it.
Before(a, b) == Has(b) => (Has(a) /\ Pos(a) < Pos(b))

\* The commands written whose reply the client has not read from its socket
\* to the end.
Unread == {i \in 1..Len(out) : ~(i \in srvDone /\ i \notin (Ids(wire) \cup Ids(inbound)))}

\* The last line of a text made of whole lines, and the lines before it.
LastLineStart(t) ==
  IF \E i \in 1..(Len(t) - 1) : t[i] = LF
  THEN (CHOOSE i \in 1..(Len(t) - 1) : t[i] = LF /\ \A j \in (i + 1)..(Len(t) - 1) : t[j] # LF) + 1
  ELSE 1
LastLine(t) == SubSeq(t, LastLineStart(t), Len(t))
\* The line of t that starts at i begins with three digits and a space.
TerminalAt(t, i) ==
  /\ i + 3 <= Len(t)
  /\ IsDigit(t[i]) /\ IsDigit(t[i + 1]) /\ IsDigit(t[i + 2]) /\ t[i + 3] = " "
LineStarts(t) == {1} \cup {i + 1 : i \in {j \in 1..(Len(t) - 1) : t[j] = LF}}

CmdReturned == cpc = "ret" /\ cret.err = "nil"

\* C1: on one Connection used by one caller, at most one command/response
\* cycle is outstanding: no command is written while the reply to an earlier
\* command has not been read.  Stated for the runs in which no I/O fails and
\* every reply is the plain one, so that a violation owes nothing to an
\* aborted exchange or to a reply that is cut short.
C1_NoPipelining == faults = 0 => Cardinality(Unread) <= 1

\* C2: the response Cmd returns ends with the first line that starts with
\* three digits and a space; a line holding "ddd " only further on is a
\* continuation line and does not end the response.
C2_StopsAtTerminalLine ==
  (cpc = "ret" /\ cret.response # <<>>) =>
    LET t == Text(cret.response)
    IN /\ t[Len(t)] = LF
       /\ \A i \in LineStarts(t) : TerminalAt(t, i) <=> i = LastLineStart(t)

\* C3: the code Cmd returns without error is the number formed by the first
\* three characters of the last line of the body it returns.
C3_CodeOfFinalLine ==
  CmdReturned =>
    cret.code = DigitsVal(SubSeq(LastLine(Text(cret.response)), 1, 3))

\* C4: a Cmd call takes from the control channel exactly the bytes of the
\* response it returns; what the server sent after them stays there for the
\* next read.
C4_NoReadAhead == CmdReturned => taken = Len(cret.response)

\* C5: in every transfer PASV is written and answered, then TYPE is written
\* and answered, then RETR/STOR is written, then the data connection is
\* dialed, then bytes are copied.
C5_TransferOrder ==
  call.op \in Transfers =>
    /\ Before(<<"write", "PASV">>, <<"reply", "PASV">>)
    /\ Before(<<"reply", "PASV">>, <<"write", "TYPE">>)
    /\ Before(<<"write", "TYPE">>, <<"reply", "TYPE">>)
    /\ Before(<<"reply", "TYPE">>, <<"write", TransferCommand(call.op)>>)
    /\ Before(<<"write", TransferCommand(call.op)>>, <<"dial", "data">>)
    /\ Before(<<"dial", "data">>, <<"copy", "data">>)
    /\ pc \in {"OPEN", "COPY"} => Has(<<"dial", "data">>)
C5_Witness ==
  /\ call.op \in Transfers /\ pc = "idle" /\ ret.err = "nil"
  /\ Has(<<"copy", "data">>)

\* C6: a data connection is open only while the transfer that dialed it is
\* between its dial and its return; once the transfer has returned, on
\* whatever path, no data connection is open.
C6_DataConnClosed ==
  /\ openConns \in {0, 1}
  /\ openConns = 1 <=> dataConn = "open"
  /\ pc \notin {"OPEN", "COPY"} => openConns = 0
C6_Witness ==
  /\ call.op \in Transfers /\ pc = "idle" /\ ret.err \notin {"nil"}
  /\ dataConn = "closed"

\* C7: when the dial of the data connection fails, the transfer returns an
\* error to its caller and does not crash.
C7_DialFailureReturnsError ==
  Has(<<"dialfail", "data">>) => pc = "idle" /\ ret.err # "nil"

\* C8: when Logout has returned, the control channel is closed and QUIT was
\* written once, whatever the QUIT exchange and the close reported.
C8_LogoutCloses ==
  (pc = "idle" /\ call.op = "Logout") =>
    /\ control = "closed"
    /\ Cardinality({i \in 1..Len(events) : events[i][2] = "QUIT"
                      /\ events[i][1] \in {"write", "wfail"}}) = 1

\* C9: Login with a user and a password returns an error when its USER
\* exchange failed with an I/O error, whatever became of the PASS exchange.
C9_LoginFirstError ==
  (pc = "idle" /\ call.op = "Login"
     /\ (Has(<<"wfail", "USER">>) \/ Has(<<"rfail", "USER">>))) => ret.err # "nil"

\* C10: Login with an empty user or an empty password returns an error at
\* once and leaves the control channel as it was: nothing is written,
\* nothing is read, the channel is not closed.
C10_BlankLoginTouchesNothing ==
  [][(nCalls' = nCalls + 1 /\ call'.op = "Login" /\ (call'.a1 = "" \/ call'.a2 = ""))
       => (/\ ret'.err # "nil"
           /\ pc' = "idle" /\ cpc' = cpc
           /\ UNCHANGED <<control, out, srvIn, srvXfer, srvDone, wire, inbound, rbuf, taken>>)]_vars
C10_Witness ==
  /\ pc = "idle" /\ call.op = "Login" /\ call.a1 = "u" /\ call.a2 = ""
  /\ ret.err = "blank" /\ control = "open" /\ out # <<>>

\* No colon of h follows every "]" of h: h ends with no ":port".
NoColonPort(h) == ~\E i \in 1..Len(h) : h[i] = ":" /\ \A j \in (i + 1)..Len(h) : h[j] # "]"

\* C11: Dial with an empty host, or with a host that has no colon-delimited
\* port, returns an error and no Connection, and net.Dial is not called.
C11_DialRejectsHostWithoutPort ==
  (call.op = "Dial" /\ (host = <<>> \/ NoColonPort(host))) =>
    /\ ret.err # "nil" /\ ~hasConn
    /\ netDials = 0 /\ control = "none" /\ events = <<>>
C11_Witness ==
  /\ call.op = "Dial" /\ host = <<"h">> /\ ret.err = "port" /\ netDials = 0

\* C12: Dial returns a Connection only when the TCP connection was opened
\* and the first three characters of the welcome are a number in 200..299;
\* when the read of the welcome fails, or those characters are no number,
\* or the number is not 2xx, it returns an error and no Connection.
C12_DialReturnsConnectionOn2xx ==
  call.op = "Dial" =>
    /\ hasConn <=> ret.err = "nil"
    /\ hasConn =>
         /\ netDials = 1 /\ control = "open" /\ ~Has(<<"rfail", "welcome">>)
         /\ Len(welcomeMsg) >= 3
         /\ \A i \in 1..3 : IsDigit(welcomeMsg[i])
         /\ DigitsVal(SubSeq(welcomeMsg, 1, 3)) \in 200..299
C12_Witness ==
  /\ call.op = "Dial" /\ hasConn /\ ret.err = "nil"
  /\ host = <<"h", ":", "h">> /\ welcomeMsg = R200

\* The code cut to as many digits as the expected code has.
Truncated(code, expectCode) ==
  code \div (IF expectCode <= 9 THEN 100 ELSE IF expectCode <= 99 THEN 10 ELSE 1)

\* C13: for every expected code in 1..999 and every code in 0..999,
\* checkResponseCode returns no error exactly when the code, cut to the
\* digit width of the expected code, equals the expected code.
C13_CheckResponseCodeTruncates ==
  fnOut # <<>> =>
    \A code \in 0..999 : fnOut[1][code] <=> Truncated(code, fnIn[1]) # fnIn[1]
C13_Witness ==
  /\ fnIn = <<23>> /\ fnOut # <<>>
  /\ ~fnOut[1][230] /\ fnOut[1][500] /\ fnOut[1][23]

\* The fields at which six numbers joined by commas start.
GroupStarts(in) ==
  {i \in 1..(Len(in.fields) - 5) : \A j \in i..(i + 4) : in.seps[j] = ","}
FirstGroup(in) == CHOOSE i \in GroupStarts(in) : \A j \in GroupStarts(in) : i <= j

\* C14: for a text that holds six comma-separated numbers h1,h2,h3,h4,p1,p2
\* extractDataPort returns p1*256 + p2 of the first such group and no
\* error; for a text that holds no such group it returns an error.
C14_ExtractDataPortFirstGroup ==
  fnOut # <<>> =>
    LET in == fnIn[1]
    IN IF GroupStarts(in) = {} THEN fnOut[1].err
       ELSE /\ ~fnOut[1].err
            /\ fnOut[1].port = in.fields[FirstGroup(in) + 4] * 256 + in.fields[FirstGroup(in) + 5]
C14_Witness ==
  /\ fnOut # <<>> /\ ~fnOut[1].err
  /\ fnIn[1].fields = <<256, 256, 7, 7, 7, 256, 7>>
  /\ fnIn[1].seps = <<".", ",", ",", ",", ",", ",">>
  /\ fnOut[1].port = 256 * 256 + 7

\* C15: every port extractDataPort returns without error is a 16-bit port
\* number, a value in 0..65535, also for a text whose port fields exceed 255.
C15_PortIs16Bit ==
  (fnOut # <<>> /\ ~fnOut[1].err) => fnOut[1].port \in 0..65535

\* C16: round trip: when UploadFile has stored the content B of a local
\* file at the server and DownloadFile then fetches it, the destination
\* file holds exactly B, whatever it held before.
C16_RoundTrip ==
  (pc = "idle" /\ call.op = "DownloadFile" /\ ret.err = "nil" /\ sent # <<>>) =>
    ret.val = sent[1]

\* C17: when the control channel is closed while a Cmd call waits for a
\* terminal line, that call eventually returns an error.
C17_ClosedCmdReturns ==
  (cpc = "read" /\ control = "closed") ~> (cpc = "ret" /\ cret.err # "nil")
C17_Witness ==
  /\ cpc = "ret" /\ cret.err = "io" /\ control = "closed"
  /\ Before(<<"write", "NOOP">>, <<"close", "control">>)
  /\ Before(<<"close", "control">>, <<"rfail", "NOOP">>)
  /\ Has(<<"rfail", "NOOP">>)

\* C18: whenever Cmd returns an error (its write failed, its read failed,
\* or the status prefix is no number), the code it returns is 0 and the
\* response it returns is empty.
C18_ErrorReturnsNothing ==
  (cpc = "ret" /\ cret.err # "nil") => (cret.code = 0 /\ cret.response = <<>>)

\* C19: in the copy loop of GetBuffer, DownloadFile and UploadFile a read
\* or a write that reports an I/O error other than the end of the stream
\* ends the transfer at once: the operation returns an error and the data
\* connection is used no more, also when the failing read came with bytes.
C19_CopyErrorEndsTransfer ==
  [][(pc = "COPY" /\ faults' = faults + 1)
       => (pc' = "idle" /\ ret'.err # "nil" /\ dataConn' = "closed")]_vars

\* The PASV or TYPE exchange that has just returned has failed: Cmd
\* returned an error, or a code outside 200..299, or, for PASV, a body
\* without six comma-separated numbers.
HandshakeFailed ==
  \/ cret.err # "nil"
  \/ cret.code \notin 200..299
  \/ pc = "PASV" /\ \A i \in 1..Len(cret.response) : GroupsEnd(Text(cret.response), i, 6) = 0

\* C20: when the PASV exchange or the TYPE exchange of a transfer has
\* failed, the transfer returns an error and writes no RETR/STOR, dials no
\* data connection and opens no local file.
C20_FailedHandshakeStops ==
  [][(call.op \in Transfers /\ pc \in {"PASV", "TYPE"} /\ cpc = "ret" /\ HandshakeFailed)
       => (/\ pc' = "idle" /\ ret'.err # "nil"
           /\ UNCHANGED <<out, srvIn, dataConn, openConns, file, events>>)]_vars
C20_Witness ==
  /\ pc = "idle" /\ call.op = "DownloadFile" /\ ret.err = "port"
  /\ Has(<<"reply", "PASV">>) /\ ~Has(<<"write", "TYPE">>)
  /\ Len(out) = 1 /\ dataConn = "nil" /\ openConns = 0 /\ file = <<>>

\* C21: on a Connection that a successful Dial has returned, whatever the
\* length of the welcome and whatever transfers were completed, a Cmd call
\* that returns without error returns the reply the server sent to the
\* command that call wrote: no byte of the welcome, no byte of the reply to
\* an earlier command.  Stated for the runs in which no I/O fails and every
\* reply to a command is the plain one, so that a violation owes nothing
\* to a reply that Cmd has cut short.
C21_ReplyOfThatCommand ==
  (faults = 0 /\ CmdReturned) => Ids(cret.response) = {Len(out)}

====
